---- MODULE Spec2Model ----
(***************************************************************************)
(* YouTrack Articles (knowledge base): the API client                      *)
(* (src/youtrack_mcp/api/articles.py) and the tool layer                   *)
(* (src/youtrack_mcp/tools/articles.py) as a state machine.  One action    *)
(* per ArticleTools method; the ArticlesClient methods and the pydantic    *)
(* Article model are operators the actions call.  The HTTP transport       *)
(* (YouTrackClient.get / .close) is the environment: what it answers is an *)
(* input of each action.  The sync_wrapper decorator runs the method and   *)
(* hands back its outcome; it adds no step of its own.                     *)
(***************************************************************************)
EXTENDS Integers, Sequences, FiniteSets, TLC

(***************************************************************************)
(* Bounds of the model.                                                    *)
(***************************************************************************)
MaxCalls == 2        \* ArticleTools method calls in one behaviour
MaxItems == 2        \* items in one remote list response

(***************************************************************************)
(* Python values.  Each kind is a record with its own field name, so that  *)
(* values of different kinds are comparable (and different).               *)
(***************************************************************************)
Omitted == [omitted |-> TRUE]      \* the caller did not pass the argument
None == [none |-> TRUE]
PyStr(s) == [str |-> s]
PyInt(n) == [int |-> n]
PyBool(b) == [bool |-> b]
PyList(s) == [list |-> s]
PyDict(f) == [dict |-> f]

IsStr(v) == DOMAIN v = {"str"}
IsInt(v) == DOMAIN v = {"int"}
IsBool(v) == DOMAIN v = {"bool"}
IsList(v) == DOMAIN v = {"list"}
IsDict(v) == DOMAIN v = {"dict"}

\* Python truth value of an argument (`if x`, `not x`, `x or y`).
Truthy(v) ==
    CASE v = None -> FALSE
      [] IsStr(v) -> v.str # ""
      [] IsInt(v) -> v.int # 0
      [] IsBool(v) -> v.bool
      [] OTHER -> TRUE

\* `a or b`
PyOr(a, b) == IF Truthy(a) THEN a ELSE b

\* A parameter with a default value in the signature.
Default(arg, d) == IF arg = Omitted THEN d ELSE arg

(***************************************************************************)
(* Outcomes of a call: a returned value or a raised exception.             *)
(***************************************************************************)
Ok(v) == [ok |-> v]
Raise(cls, msg) == [raise |-> [cls |-> cls, msg |-> msg]]
IsOk(r) == DOMAIN r = {"ok"}
IsRaise(r) == DOMAIN r = {"raise"}

\* Exception classes of the model; all derive from Exception.
ExceptionClasses == {"Exception", "ValidationError"}

\* str(e)
StrOf(e) == e.msg

(***************************************************************************)
(* class Article(BaseModel), extra = "allow".                              *)
(***************************************************************************)
DeclaredFields ==
    {"id", "idReadable", "summary", "content", "project", "reporter",
     "updatedBy", "created", "updated", "hasChildren", "hasStar"}

StrFields == {"id", "idReadable", "summary", "content"}

\* Article.model_validate(a): id is required and a str; the other declared
\* fields default to None; undeclared keys are kept as extras.
ModelValidate(a) ==
    IF "id" \notin DOMAIN a
    THEN Raise("ValidationError", "id: Field required")
    ELSE IF \E k \in StrFields \cap DOMAIN a :
                ~IsStr(a[k]) /\ ~(k # "id" /\ a[k] = None)
    THEN Raise("ValidationError", "Input should be a valid string")
    ELSE Ok([fields |-> [k \in DeclaredFields |->
                            IF k \in DOMAIN a THEN a[k] ELSE None],
             extra |-> [k \in DOMAIN a \ DeclaredFields |-> a[k]]])

\* a.model_dump(): declared fields and extras in one mapping.
ModelDump(art) == art.fields @@ art.extra

\* A list comprehension that drops the items that fail validation.
ValidateAll_skipInvalid(resp) ==
    LET vs == [i \in 1..Len(resp) |-> ModelValidate(resp[i])]
        good == SelectSeq([i \in 1..Len(resp) |-> vs[i]], IsOk)
    IN  Ok([i \in 1..Len(good) |-> good[i].ok])

\* [Article.model_validate(a) for a in resp]: the first failure raises.
ValidateAll(resp) ==
    LET vs == [i \in 1..Len(resp) |-> ModelValidate(resp[i])]
        bad == {i \in 1..Len(resp) : IsRaise(vs[i])}
    IN  IF bad # {}
        THEN vs[CHOOSE i \in bad : \A j \in bad : i <= j]
        ELSE Ok([i \in 1..Len(resp) |-> vs[i].ok])

(***************************************************************************)
(* The transport.  `rem` is what the HTTP layer does for this call:        *)
(* Raise(cls, msg) or Ok(parsed JSON).  A call of self.client.get issues   *)
(* one request.                                                            *)
(***************************************************************************)
\* A transport call site that tries again after a failure.
ClientGet_retry(path, params, rem) ==
    LET r == [path |-> path, params |-> params]
    IN  [reqs |-> IF IsRaise(rem) THEN <<r, r>> ELSE <<r>>, res |-> rem]

ClientGet(path, params, rem) ==
    [reqs |-> <<[path |-> path, params |-> params]>>, res |-> rem]

(***************************************************************************)
(* class ArticlesClient.  Each method yields the arguments it received     *)
(* (recv), the requests it issued (reqs) and its outcome (res).            *)
(***************************************************************************)
BaseFields ==
    "id,idReadable,summary,project(id,shortName),reporter(id,login,name),updated,created,hasChildren,hasStar"

\* _default_fields that appends content whatever include_content is.
default_fields_always(include_content) == BaseFields \o ",content"

default_fields(include_content) ==
    BaseFields \o (IF Truthy(include_content) THEN ",content" ELSE "")

Received(method, id, top, skip, include_content, fields) ==
    [method |-> method, id |-> id, top |-> top, skip |-> skip,
     include_content |-> include_content, fields |-> fields]

\* list_articles with `if top:` / `if skip:` in place of `is not None`.
ArticlesClient_list_articles_truthy(top_, skip_, include_content_, fields_, rem) ==
    LET top == Default(top_, None)
        skip == Default(skip_, None)
        include_content == Default(include_content_, PyBool(FALSE))
        fields == Default(fields_, None)
        p0 == "fields" :> PyOr(fields, PyStr(default_fields(include_content)))
        p1 == IF Truthy(top) THEN ("$top" :> top) @@ p0 ELSE p0
        params == IF Truthy(skip) THEN ("$skip" :> skip) @@ p1 ELSE p1
        got == ClientGet("articles", params, rem)
    IN  [recv |-> Received("list_articles", None, top, skip, include_content, fields),
         reqs |-> got.reqs,
         res |-> IF IsRaise(got.res) THEN got.res ELSE ValidateAll(got.res.ok)]

ArticlesClient_list_articles(top_, skip_, include_content_, fields_, rem) ==
    LET top == Default(top_, None)
        skip == Default(skip_, None)
        include_content == Default(include_content_, PyBool(FALSE))
        fields == Default(fields_, None)
        p0 == "fields" :> PyOr(fields, PyStr(default_fields(include_content)))
        p1 == IF top # None THEN ("$top" :> top) @@ p0 ELSE p0
        params == IF skip # None THEN ("$skip" :> skip) @@ p1 ELSE p1
        got == ClientGet("articles", params, rem)
    IN  [recv |-> Received("list_articles", None, top, skip, include_content, fields),
         reqs |-> got.reqs,
         res |-> IF IsRaise(got.res) THEN got.res ELSE ValidateAll(got.res.ok)]

\* get_article with `fields if fields is not None else ...` in place of `or`.
ArticlesClient_get_article_isNone(article_id, include_content_, fields_, rem) ==
    LET include_content == Default(include_content_, PyBool(TRUE))
        fields == Default(fields_, None)
        params == "fields" :> (IF fields # None THEN fields
                               ELSE PyStr(default_fields(include_content)))
        got == ClientGet("articles/" \o article_id.str, params, rem)
    IN  [recv |-> Received("get_article", article_id, None, None, include_content, fields),
         reqs |-> got.reqs,
         res |-> IF IsRaise(got.res) THEN got.res ELSE ModelValidate(got.res.ok)]

ArticlesClient_get_article(article_id, include_content_, fields_, rem) ==
    LET include_content == Default(include_content_, PyBool(TRUE))
        fields == Default(fields_, None)
        params == "fields" :> PyOr(fields, PyStr(default_fields(include_content)))
        got == ClientGet("articles/" \o article_id.str, params, rem)
    IN  [recv |-> Received("get_article", article_id, None, None, include_content, fields),
         reqs |-> got.reqs,
         res |-> IF IsRaise(got.res) THEN got.res ELSE ModelValidate(got.res.ok)]

ArticlesClient_list_child_articles(article_id, top_, skip_, include_content_, fields_, rem) ==
    LET top == Default(top_, None)
        skip == Default(skip_, None)
        include_content == Default(include_content_, PyBool(FALSE))
        fields == Default(fields_, None)
        p0 == "fields" :> PyOr(fields, PyStr(default_fields(include_content)))
        p1 == IF top # None THEN ("$top" :> top) @@ p0 ELSE p0
        params == IF skip # None THEN ("$skip" :> skip) @@ p1 ELSE p1
        got == ClientGet("articles/" \o article_id.str \o "/childArticles", params, rem)
    IN  [recv |-> Received("list_child_articles", article_id, top, skip, include_content, fields),
         reqs |-> got.reqs,
         res |-> IF IsRaise(got.res) THEN got.res ELSE ValidateAll(got.res.ok)]

ArticlesClient_list_project_articles(project_id, top_, skip_, include_content_, fields_, rem) ==
    LET top == Default(top_, None)
        skip == Default(skip_, None)
        include_content == Default(include_content_, PyBool(FALSE))
        fields == Default(fields_, None)
        p0 == "fields" :> PyOr(fields, PyStr(default_fields(include_content)))
        p1 == IF top # None THEN ("$top" :> top) @@ p0 ELSE p0
        params == IF skip # None THEN ("$skip" :> skip) @@ p1 ELSE p1
        got == ClientGet("admin/projects/" \o project_id.str \o "/articles", params, rem)
    IN  [recv |-> Received("list_project_articles", project_id, top, skip, include_content, fields),
         reqs |-> got.reqs,
         res |-> IF IsRaise(got.res) THEN got.res ELSE ValidateAll(got.res.ok)]

(***************************************************************************)
(* State.                                                                  *)
(***************************************************************************)
VARIABLES
    hasClose,      \* hasattr(self.client, "close"), fixed at construction
    op,            \* the ArticleTools method called last ("none" at start)
    args,          \* its arguments as the caller passed them
    remote,        \* what the transport does when that call reaches it
    api,           \* the ArticlesClient method that call used and what it received
    reqs,          \* the GET requests that call issued: <<[path, params]>>
    ret,           \* its outcome: Ok(value) or Raise(cls, msg)
    invocations,   \* calls of the three tool operations so far
    gets,          \* GET requests issued so far
    closeCalls,    \* calls of ArticleTools.close so far
    clientCloses   \* calls of self.client.close so far

vars == <<hasClose, op, args, remote, api, reqs, ret, invocations, gets,
          closeCalls, clientCloses>>

(***************************************************************************)
(* class ArticleTools                                                      *)
(***************************************************************************)
\* format_json_response(obj): the JSON text of obj.
format_json_response(obj) == [json |-> obj]

\* An except clause that catches validation errors only.
ExceptException_validationOnly(body) ==
    IF IsRaise(body) /\ body.raise.cls = "ValidationError"
    THEN Ok(format_json_response(PyDict("error" :> PyStr(StrOf(body.raise)))))
    ELSE body

\* try: body / except Exception as e: return {"error": str(e)}
ExceptException(body) ==
    IF IsRaise(body) /\ body.raise.cls \in ExceptionClasses
    THEN Ok(format_json_response(PyDict("error" :> PyStr(StrOf(body.raise)))))
    ELSE body

\* A dump that returns the articles last to first.
DumpAll_reversed(articles) ==
    [i \in 1..Len(articles) |-> ModelDump(articles[Len(articles) + 1 - i])]

\* [a.model_dump() ... for a in articles]
DumpAll(articles) == [i \in 1..Len(articles) |-> ModelDump(articles[i])]

NoArgs ==
    [project_id |-> Omitted, article_id |-> Omitted, limit |-> Omitted,
     skip |-> Omitted, include_content |-> Omitted, fields |-> Omitted]

\* The early return of get_article / get_article_children: no API call.
NoCall == [recv |-> None, reqs |-> <<>>, res |-> None]

Init ==
    /\ hasClose \in BOOLEAN
    /\ op = "none"
    /\ args = NoArgs
    /\ remote = None
    /\ api = None
    /\ reqs = <<>>
    /\ ret = None
    /\ invocations = 0
    /\ gets = 0
    /\ closeCalls = 0
    /\ clientCloses = 0

CanCall == invocations + closeCalls < MaxCalls

\* The record of one tool operation: `call` is what the API layer did and
\* `result` the outcome of the method.
Finish(name, a, rem, call, result) ==
    /\ op' = name
    /\ args' = a
    /\ remote' = rem
    /\ api' = call.recv
    /\ reqs' = call.reqs
    /\ ret' = result
    /\ invocations' = invocations + 1
    /\ gets' = gets + Len(call.reqs)
    /\ UNCHANGED <<hasClose, closeCalls, clientCloses>>

\* get_articles with `if project_id is not None:`.
ArticleTools_get_articles_isNotNone(project_id, limit, skip, include_content, fields, rem) ==
    LET pid == Default(project_id, None)
        lim == Default(limit, PyInt(20))
        skp == Default(skip, PyInt(0))
        inc == Default(include_content, PyBool(FALSE))
        fld == Default(fields, None)
        call == IF pid # None
                THEN ArticlesClient_list_project_articles(pid, lim, skp, inc, fld, rem)
                ELSE ArticlesClient_list_articles(lim, skp, inc, fld, rem)
        body == IF IsRaise(call.res) THEN call.res
                ELSE Ok(format_json_response(PyList(DumpAll(call.res.ok))))
    IN  /\ CanCall
        /\ Finish("get_articles",
                  [NoArgs EXCEPT !.project_id = project_id, !.limit = limit,
                                 !.skip = skip, !.include_content = include_content,
                                 !.fields = fields],
                  rem, call, ExceptException(body))

ArticleTools_get_articles(project_id, limit, skip, include_content, fields, rem) ==
    LET pid == Default(project_id, None)
        lim == Default(limit, PyInt(20))
        skp == Default(skip, PyInt(0))
        inc == Default(include_content, PyBool(FALSE))
        fld == Default(fields, None)
        call == IF Truthy(pid)
                THEN ArticlesClient_list_project_articles(pid, lim, skp, inc, fld, rem)
                ELSE ArticlesClient_list_articles(lim, skp, inc, fld, rem)
        body == IF IsRaise(call.res) THEN call.res
                ELSE Ok(format_json_response(PyList(DumpAll(call.res.ok))))
    IN  /\ CanCall
        /\ Finish("get_articles",
                  [NoArgs EXCEPT !.project_id = project_id, !.limit = limit,
                                 !.skip = skip, !.include_content = include_content,
                                 !.fields = fields],
                  rem, call, ExceptException(body))

ArticleTools_get_article(article_id, include_content, fields, rem) ==
    LET inc == Default(include_content, PyBool(TRUE))
        fld == Default(fields, None)
        call == IF ~Truthy(article_id) THEN NoCall
                ELSE ArticlesClient_get_article(article_id, inc, fld, rem)
        body == IF ~Truthy(article_id)
                THEN Ok(format_json_response(
                            PyDict("error" :> PyStr("Article ID is required"))))
                ELSE IF IsRaise(call.res) THEN call.res
                ELSE Ok(format_json_response(PyDict(ModelDump(call.res.ok))))
    IN  /\ CanCall
        /\ Finish("get_article",
                  [NoArgs EXCEPT !.article_id = article_id,
                                 !.include_content = include_content,
                                 !.fields = fields],
                  rem, call, ExceptException(body))

\* get_article_children with `if article_id is None:` in place of `not`.
ArticleTools_get_article_children_isNone(article_id, limit, skip, include_content, fields, rem) ==
    LET lim == Default(limit, PyInt(20))
        skp == Default(skip, PyInt(0))
        inc == Default(include_content, PyBool(FALSE))
        fld == Default(fields, None)
        call == IF article_id = None THEN NoCall
                ELSE ArticlesClient_list_child_articles(article_id, lim, skp, inc, fld, rem)
        body == IF article_id = None
                THEN Ok(format_json_response(
                            PyDict("error" :> PyStr("Article ID is required"))))
                ELSE IF IsRaise(call.res) THEN call.res
                ELSE Ok(format_json_response(PyList(DumpAll(call.res.ok))))
    IN  /\ CanCall
        /\ Finish("get_article_children",
                  [NoArgs EXCEPT !.article_id = article_id, !.limit = limit,
                                 !.skip = skip, !.include_content = include_content,
                                 !.fields = fields],
                  rem, call, ExceptException(body))

ArticleTools_get_article_children(article_id, limit, skip, include_content, fields, rem) ==
    LET lim == Default(limit, PyInt(20))
        skp == Default(skip, PyInt(0))
        inc == Default(include_content, PyBool(FALSE))
        fld == Default(fields, None)
        call == IF ~Truthy(article_id) THEN NoCall
                ELSE ArticlesClient_list_child_articles(article_id, lim, skp, inc, fld, rem)
        body == IF ~Truthy(article_id)
                THEN Ok(format_json_response(
                            PyDict("error" :> PyStr("Article ID is required"))))
                ELSE IF IsRaise(call.res) THEN call.res
                ELSE Ok(format_json_response(PyList(DumpAll(call.res.ok))))
    IN  /\ CanCall
        /\ Finish("get_article_children",
                  [NoArgs EXCEPT !.article_id = article_id, !.limit = limit,
                                 !.skip = skip, !.include_content = include_content,
                                 !.fields = fields],
                  rem, call, ExceptException(body))

\* close() without the try/except around self.client.close().
ArticleTools_close_noTry(rem) ==
    LET result == IF hasClose /\ IsRaise(rem) THEN rem ELSE Ok(None)
    IN  /\ CanCall
        /\ op' = "close"
        /\ args' = NoArgs
        /\ remote' = rem
        /\ api' = None
        /\ reqs' = <<>>
        /\ ret' = result
        /\ closeCalls' = closeCalls + 1
        /\ clientCloses' = clientCloses + (IF hasClose THEN 1 ELSE 0)
        /\ UNCHANGED <<hasClose, invocations, gets>>

\* ArticleTools.close(); `rem` is what self.client.close() does when called.
ArticleTools_close(rem) ==
    LET body == IF hasClose THEN rem ELSE Ok(None)
        result == IF IsRaise(body) /\ body.raise.cls \in ExceptionClasses
                  THEN Ok(None)        \* logger.exception(...), then falls off the end
                  ELSE IF IsRaise(body) THEN body ELSE Ok(None)
    IN  /\ CanCall
        /\ op' = "close"
        /\ args' = NoArgs
        /\ remote' = rem
        /\ api' = None
        /\ reqs' = <<>>
        /\ ret' = result
        /\ closeCalls' = closeCalls + 1
        /\ clientCloses' = clientCloses + (IF hasClose THEN 1 ELSE 0)
        /\ UNCHANGED <<hasClose, invocations, gets>>

(***************************************************************************)
(* Inputs.                                                                 *)
(***************************************************************************)
ProjectIds == {Omitted, None, PyStr(""), PyStr("DEMO")}
ArticleIds == {None, PyStr(""), PyStr("226-0")}
Limits == {Omitted, None, PyInt(0), PyInt(5)}
Skips == {Omitted, None, PyInt(0), PyInt(10)}
Includes == {Omitted, PyBool(TRUE), PyBool(FALSE)}
FieldsArgs == {Omitted, PyStr(""), PyStr("id,summary")}

\* Pagination and field selection of a listing call.  The two groups are
\* varied one at a time, the other left as the caller's omission.
ListArgs ==
    {a \in [limit : Limits, skip : Skips, include_content : Includes,
            fields : FieldsArgs] :
        \/ a.limit = Omitted /\ a.skip = Omitted
        \/ a.include_content = Omitted /\ a.fields = Omitted}

\* JSON objects the remote API may return for one article: a valid one, a
\* valid one with an undeclared key, one without id, one whose id is no str.
Items ==
    {"id" :> PyStr("a1"),
     ("id" :> PyStr("a2")) @@ ("tags" :> PyStr("t")),
     "summary" :> PyStr("s"),
     ("id" :> PyInt(7)) @@ ("tags" :> PyStr("t"))}

RECURSIVE SeqsUpTo(_, _)
SeqsUpTo(S, n) ==
    IF n = 0 THEN {<<>>}
    ELSE LET shorter == SeqsUpTo(S, n - 1)
         IN  shorter \cup {Append(s, x) : s \in {t \in shorter : Len(t) = n - 1}, x \in S}

Failures == {Raise("Exception", "boom"), Raise("Exception", "")}

\* What the transport does for a call with varied arguments, and for a call
\* with the arguments left out.
FewListRemotes == {Raise("Exception", "boom"), Ok(<<"id" :> PyStr("a1")>>)}
ListRemotes == Failures \cup {Ok(b) : b \in SeqsUpTo(Items, MaxItems)}
FewItemRemotes == {Raise("Exception", "boom"), Ok("id" :> PyStr("a1"))}
ItemRemotes == Failures \cup {Ok(a) : a \in Items}
CloseRemotes == Failures \cup {Ok(None)}

Call_get_articles ==
    /\ CanCall
    /\ \/ \E p \in ProjectIds, a \in ListArgs, r \in FewListRemotes :
             ArticleTools_get_articles(p, a.limit, a.skip, a.include_content, a.fields, r)
       \/ \E p \in {Omitted, PyStr("DEMO")}, r \in ListRemotes :
             ArticleTools_get_articles(p, Omitted, Omitted, Omitted, Omitted, r)

Call_get_article ==
    /\ CanCall
    /\ \/ \E a \in ArticleIds, i \in Includes, f \in FieldsArgs, r \in FewItemRemotes :
             ArticleTools_get_article(a, i, f, r)
       \/ \E r \in ItemRemotes :
             ArticleTools_get_article(PyStr("226-0"), Omitted, Omitted, r)

Call_get_article_children ==
    /\ CanCall
    /\ \/ \E id \in ArticleIds, a \in ListArgs, r \in FewListRemotes :
             ArticleTools_get_article_children(id, a.limit, a.skip, a.include_content, a.fields, r)
       \/ \E r \in ListRemotes :
             ArticleTools_get_article_children(PyStr("226-0"), Omitted, Omitted, Omitted, Omitted, r)

Call_close == CanCall /\ \E r \in CloseRemotes : ArticleTools_close(r)

Next ==
    \/ Call_get_articles
    \/ Call_get_article
    \/ Call_get_article_children
    \/ Call_close

Spec == Init /\ [][Next]_vars

(***************************************************************************)
(* Properties.                                                             *)
(***************************************************************************)
ToolOps == {"get_articles", "get_article", "get_article_children"}
ListOps == {"get_articles", "get_article_children"}

\* The text of the JSON object {"error": msg}.
ErrorText(msg) == [json |-> [dict |-> ("error" :> [str |-> msg])]]

\* The default selections, as the strings sent on the wire.
BaseSelection ==
    "id,idReadable,summary,project(id,shortName),reporter(id,login,name),updated,created,hasChildren,hasStar"
ContentSelection ==
    "id,idReadable,summary,project(id,shortName),reporter(id,login,name),updated,created,hasChildren,hasStar,content"

\* The call was short-circuited by the local id validation.
ShortCircuited ==
    /\ op \in {"get_article", "get_article_children"}
    /\ args.article_id \in {None, PyStr("")}

\* include_content as the operation uses it: the caller's value or the default.
IncludesContent ==
    IF args.include_content = Omitted THEN op = "get_article"
    ELSE args.include_content.bool

\* A remote item that passes the schema: it has an id, and the id is a string.
ItemValid(a) == "id" \in DOMAIN a /\ DOMAIN a["id"] = {"str"}

WellFormed(body) == \A i \in 1..Len(body) : ItemValid(body[i])

\* C1: when the transport's GET raises, each of the three tool operations
\* returns the JSON object {"error": <str(exception)>} and does not raise.
C1_ErrorOnTransportFailure ==
    (op \in ToolOps /\ reqs # <<>> /\ IsRaise(remote))
        => ret = Ok(ErrorText(remote.raise.msg))

C1_Witness ==
    /\ op = "get_article"
    /\ reqs # <<>>
    /\ remote = Raise("Exception", "boom")
    /\ ret = Ok(ErrorText("boom"))

\* C2: get_article and get_article_children with an empty or missing article
\* id return {"error": "Article ID is required"} and issue no GET, whatever
\* the other arguments are.
C2_IdRequired ==
    ShortCircuited
        => /\ ret = Ok(ErrorText("Article ID is required"))
           /\ reqs = <<>>
           /\ api = None

C2_Witness ==
    /\ op = "get_article_children"
    /\ args.article_id = PyStr("")
    /\ args.limit = PyInt(5)
    /\ reqs = <<>>
    /\ ret = Ok(ErrorText("Article ID is required"))

\* C3 as stated: for get_articles, limit=L and skip=S give $top=L and $skip=S,
\* and omitting limit and skip gives a GET with neither $top nor $skip.
C3_Original ==
    (op = "get_articles" /\ Len(reqs) = 1)
        => LET P == reqs[1].params
           IN  /\ (IsInt(args.limit) /\ IsInt(args.skip))
                     => /\ "$top" \in DOMAIN P /\ P["$top"] = args.limit
                        /\ "$skip" \in DOMAIN P /\ P["$skip"] = args.skip
               /\ (args.limit = Omitted /\ args.skip = Omitted)
                     => "$top" \notin DOMAIN P /\ "$skip" \notin DOMAIN P

\* C3 (amended): for get_articles, limit=L and skip=S give $top=L and $skip=S;
\* an omitted limit is sent as $top=20 and an omitted skip as $skip=0 (the
\* tool's defaults); a key is absent only when None is passed for it.
C3_Amended ==
    (op = "get_articles" /\ Len(reqs) = 1)
        => LET P == reqs[1].params
           IN  /\ IsInt(args.limit) => ("$top" \in DOMAIN P /\ P["$top"] = args.limit)
               /\ IsInt(args.skip) => ("$skip" \in DOMAIN P /\ P["$skip"] = args.skip)
               /\ args.limit = Omitted => ("$top" \in DOMAIN P /\ P["$top"] = PyInt(20))
               /\ args.skip = Omitted => ("$skip" \in DOMAIN P /\ P["$skip"] = PyInt(0))
               /\ args.limit = None <=> "$top" \notin DOMAIN P
               /\ args.skip = None <=> "$skip" \notin DOMAIN P

C3_Witness ==
    /\ op = "get_articles"
    /\ args.limit = Omitted
    /\ args.skip = Omitted
    /\ Len(reqs) = 1
    /\ DOMAIN reqs[1].params = {"fields", "$top", "$skip"}
    /\ reqs[1].params["$top"] = PyInt(20)
    /\ reqs[1].params["$skip"] = PyInt(0)

\* The ArticlesClient method received the caller's limit, skip,
\* include_content and fields (the tool's defaults for those left out).
Forwarded ==
    /\ api.top = (IF args.limit = Omitted THEN PyInt(20) ELSE args.limit)
    /\ api.skip = (IF args.skip = Omitted THEN PyInt(0) ELSE args.skip)
    /\ api.include_content =
          (IF args.include_content = Omitted THEN PyBool(FALSE) ELSE args.include_content)
    /\ api.fields = (IF args.fields = Omitted THEN None ELSE args.fields)

\* C4 as stated: for get_articles, a supplied project_id sends the single GET
\* to admin/projects/{project_id}/articles, an omitted one (left out, or
\* None) to articles, and both forward the same limit, skip, include_content
\* and fields.
C4_Original ==
    op = "get_articles"
        => /\ Len(reqs) = 1
           /\ args.project_id \notin {Omitted, None}
                 => /\ reqs[1].path = "admin/projects/" \o args.project_id.str \o "/articles"
                    /\ api.method = "list_project_articles"
           /\ args.project_id \in {Omitted, None}
                 => /\ reqs[1].path = "articles"
                    /\ api.method = "list_articles"
           /\ Forwarded

\* C4 (amended): for get_articles, a supplied non-empty project_id sends the
\* single GET to admin/projects/{project_id}/articles; an omitted or empty
\* one sends it to articles; both forward the same limit, skip,
\* include_content and fields.
C4_Amended ==
    op = "get_articles"
        => /\ Len(reqs) = 1
           /\ args.project_id \notin {Omitted, None, PyStr("")}
                 => /\ reqs[1].path = "admin/projects/" \o args.project_id.str \o "/articles"
                    /\ api.method = "list_project_articles"
                    /\ api.id = args.project_id
           /\ args.project_id \in {Omitted, None, PyStr("")}
                 => /\ reqs[1].path = "articles"
                    /\ api.method = "list_articles"
           /\ Forwarded

C4_Witness ==
    /\ op = "get_articles"
    /\ args.project_id = PyStr("DEMO")
    /\ args.limit = PyInt(5)
    /\ args.skip = PyInt(10)
    /\ Len(reqs) = 1
    /\ reqs[1].path = "admin/projects/DEMO/articles"
    /\ api.top = PyInt(5)
    /\ api.skip = PyInt(10)

\* C5: with no fields argument, a listing (global, project-scoped, child
\* articles) with default include_content sends the base selection without
\* content, the single-article fetch with default include_content sends the
\* base selection with content appended, and content is in the default
\* selection if and only if include_content is true.
C5_DefaultSelection ==
    (op \in ToolOps /\ Len(reqs) = 1 /\ args.fields = Omitted)
        => LET F == reqs[1].params["fields"]
           IN  /\ (op \in ListOps /\ args.include_content = Omitted)
                     => F = PyStr(BaseSelection)
               /\ (op = "get_article" /\ args.include_content = Omitted)
                     => F = PyStr(ContentSelection)
               /\ args.include_content = PyBool(TRUE) => F = PyStr(ContentSelection)
               /\ args.include_content = PyBool(FALSE) => F = PyStr(BaseSelection)

C5_Witness ==
    /\ op = "get_article"
    /\ args.include_content = Omitted
    /\ args.fields = Omitted
    /\ Len(reqs) = 1
    /\ reqs[1].params["fields"] = PyStr(ContentSelection)

\* C6: a list operation never yields a partially parsed list: if every item
\* of the remote response validates, the tool returns a JSON array of as many
\* elements; if any item fails validation, it returns only an {"error": ...}
\* object.
C6_NoPartialList ==
    (op \in ListOps /\ Len(reqs) = 1 /\ IsOk(remote))
        => /\ IsOk(ret)
           /\ WellFormed(remote.ok)
                 => /\ IsList(ret.ok.json)
                    /\ Len(ret.ok.json.list) = Len(remote.ok)
           /\ ~WellFormed(remote.ok)
                 => /\ IsDict(ret.ok.json)
                    /\ DOMAIN ret.ok.json.dict = {"error"}

C6_Witness ==
    /\ op = "get_articles"
    /\ Len(reqs) = 1
    /\ remote = Ok(<<"id" :> PyStr("a1"), "summary" :> PyStr("s")>>)
    /\ IsDict(ret.ok.json)
    /\ DOMAIN ret.ok.json.dict = {"error"}

\* C7: for a well-formed remote response to a listing call, the returned
\* text is a JSON array of the same length whose i-th element is the i-th
\* remote item (same order, every attribute of the item kept), and each
\* element contains id.
C7_ListInOrder ==
    (op \in ListOps /\ Len(reqs) = 1 /\ IsOk(remote) /\ WellFormed(remote.ok))
        => /\ IsOk(ret)
           /\ IsList(ret.ok.json)
           /\ Len(ret.ok.json.list) = Len(remote.ok)
           /\ \A i \in 1..Len(remote.ok) :
                 LET e == ret.ok.json.list[i]
                     a == remote.ok[i]
                 IN  /\ "id" \in DOMAIN e
                     /\ \A k \in DOMAIN a : k \in DOMAIN e /\ e[k] = a[k]

C7_Witness ==
    /\ op = "get_article_children"
    /\ remote = Ok(<<("id" :> PyStr("a2")) @@ ("tags" :> PyStr("t")), "id" :> PyStr("a1")>>)
    /\ IsList(ret.ok.json)
    /\ ret.ok.json.list[1]["id"] = PyStr("a2")
    /\ ret.ok.json.list[2]["id"] = PyStr("a1")

\* C8: ArticleTools.close never raises and returns None; the client's close
\* is invoked once per close call when the client has one, a failure of it
\* is swallowed, and nothing is invoked when the client has none.
C8_CloseNeverRaises ==
    /\ op = "close" => ret = Ok(None)
    /\ clientCloses = (IF hasClose THEN closeCalls ELSE 0)

C8_Witness ==
    /\ op = "close"
    /\ hasClose
    /\ IsRaise(remote)
    /\ ret = Ok(None)
    /\ closeCalls = 2
    /\ clientCloses = 2

\* C9: each tool invocation issues at most one GET: exactly one when it
\* passes the local id validation, none when it is short-circuited; a failed
\* GET is not retried; the GETs never outnumber the invocations.
C9_AtMostOneGet ==
    /\ op \in ToolOps => Len(reqs) = (IF ShortCircuited THEN 0 ELSE 1)
    /\ op \notin ToolOps => reqs = <<>>
    /\ gets <= invocations
    /\ Len(reqs) <= gets

C9_Witness ==
    /\ invocations = 2
    /\ gets = 1
    /\ op \in ToolOps
    /\ IsRaise(remote)
    /\ Len(reqs) = 1

\* C10: in the four ArticlesClient operations a non-empty fields string is
\* sent verbatim as the fields parameter, whatever include_content is, and
\* an empty fields string is replaced by the default selection like an
\* absent one.
C10_FieldsVerbatim ==
    (op \in ToolOps /\ Len(reqs) = 1)
        => LET F == reqs[1].params["fields"]
           IN  /\ (IsStr(args.fields) /\ args.fields # PyStr("")) => F = args.fields
               /\ args.fields \in {PyStr(""), Omitted}
                     => F = PyStr(IF IncludesContent THEN ContentSelection
                                  ELSE BaseSelection)

C10_Witness ==
    /\ op = "get_articles"
    /\ Len(reqs) = 1
    /\ api.method = "list_project_articles"
    /\ args.fields = PyStr("id,summary")
    /\ args.include_content = PyBool(TRUE)
    /\ reqs[1].params["fields"] = PyStr("id,summary")

====
